---- MODULE Spec2Model ----
(***************************************************************************)
(* Model of the thumbnails tool (src/main.rs): the pipelined strategy of   *)
(* main (--asynchronous): one reader task (open_files), a pool of cpu      *)
(* scoped worker threads, one writer task (write_files), connected by two  *)
(* bounded smol channels of capacity limit.                                *)
(*                                                                         *)
(* A work item is its index in list; list[i] tells whether the bytes of    *)
(* the i-th source file decode as an image.  I/O failures (reading a       *)
(* source, writing a destination) are choices of the environment made at   *)
(* the step where the operation completes.                                 *)
(*                                                                         *)
(* The second part models prepare, the recursive walk that mirrors the     *)
(* directories and builds the work list, followed by the data-parallel     *)
(* strategy (rayon for_each over sync_version).  Directories are relative  *)
(* paths (sequences of names), files are records of a directory, a stem    *)
(* and an extension; names are valid UTF-8 and a mirrored destination path  *)
(* is either absent or a directory.                                        *)
(***************************************************************************)
EXTENDS Naturals, Sequences, FiniteSets

\* Bounds of the model.
MaxItems == 3     \* longest work list
MaxLimit == 2     \* largest --limit
MaxCpu   == 2     \* largest num_cpus::get()
BurstItems == 6   \* length of the work list of the burst specification
MaxFiles == 2     \* most files in the source tree

VARIABLES
    list,           \* Seq(BOOLEAN): the work list; TRUE = decodable image
    limit,          \* --limit, capacity of both channels
    cpu,            \* num_cpus::get()
    input,          \* content of the input channel (item indices)
    output,         \* content of the output channel
    input_closed,   \* the input channel is closed
    output_closed,  \* the output channel is closed
    input_sx,       \* live Sender handles of the input channel
    input_rx,       \* live Receiver handles of the input channel
    output_sx,      \* live Sender handles of the output channel
    output_rx,      \* live Receiver handles of the output channel
    open_files,     \* position of the reader task
    next_item,      \* index of the item the reader is at
    threads,        \* threads[w]: position of worker w
    held,           \* held[w]: item worker w holds, 0 if none
    write_files,    \* position of the writer task
    out_item,       \* item the writer holds, 0 if none
    main,           \* position of the main thread
    t,              \* index of the thread main spawns / joins next
    scope_result,   \* result of the closure given to thread::scope
    result,         \* what main returned: "none", "ok", "err"
    recvCount,      \* history: receives of item i from the input channel
    resizeCount,    \* history: successful resize_image calls on item i
    writeCount,     \* history: completed writes of item i
    sentAfterFail,  \* history: items sent to input after a worker's image error
    srcDirs,        \* the directories of the source tree, relative to src
    srcFiles,       \* the files of the source tree
    dst0,           \* the directories under dst that exist before the run
    dstDirs,        \* the directories under dst that exist, relative to dst
    stack,          \* the active calls of prepare, innermost last
    pairs,          \* the work list prepare builds: (src, dst) pairs
    phase,          \* position of main around prepare and the par_iter
    tasks,          \* tasks[i]: position of the for_each task of pairs[i]
    taskWrites      \* history: completed fs::write calls of task i

\* The variables of the pipeline, and those of the walk and the par_iter.
pipe == <<list, limit, cpu, input, output, input_closed, output_closed,
          input_sx, input_rx, output_sx, output_rx, open_files, next_item,
          threads, held, write_files, out_item, main, t, scope_result,
          result, recvCount, resizeCount, writeCount, sentAfterFail>>
walk == <<srcDirs, srcFiles, dst0, dstDirs, stack, pairs, phase, tasks,
          taskWrites>>

vars == <<pipe, walk>>

chans == <<input, output, input_closed, output_closed,
           input_sx, input_rx, output_sx, output_rx>>
hist  == <<recvCount, resizeCount, writeCount, sentAfterFail>>
conf  == <<list, limit, cpu>>

Items   == 1..Len(list)
Workers == 1..cpu

\* Sequences of booleans of length n, and of length up to n.
RECURSIVE BoolSeqs(_)
BoolSeqs(n) ==
    IF n = 0 THEN {<<>>}
    ELSE {Append(s, b) : s \in BoolSeqs(n - 1), b \in BOOLEAN}

WorkLists == UNION {BoolSeqs(n) : n \in 0..MaxItems}


----------------------------------------------------------------------------
\* smol::channel (async-channel), bounded.

\* Off by one: the channel takes one item more than its capacity.
FullOffByOne(q, cap) == Len(q) > cap

\* A bounded channel refuses a push when it holds cap items.
Full(q, cap) == Len(q) >= cap

\* A receive that leaves the item in the channel.
RestKeepsHead(q) == q

\* What is left in the channel after a successful receive.
Rest(q) == Tail(q)

\* A receive that gives up on an empty channel that is still open.
RecvErrorWhenEmpty(q, closed) == q = <<>>

\* recv fails (RecvError) only when the channel is closed and empty.
RecvError(q, closed) == closed /\ q = <<>>

\* A handle that is leaked instead of dropped.
Leaked(n) == n

\* Number of handles left once one handle has been dropped.
Dropped(n) == n - 1

\* Dropping the last handle of one side closes the channel.
ClosedAfterDrop(closed, n) == closed \/ Dropped(n) = 0

----------------------------------------------------------------------------
Finished(pc)  == pc \in {"ok", "io_error", "image_error", "send_error"}
Failed(pc)    == pc \in {"io_error", "image_error", "send_error"}
Stopped(pc)   == Finished(pc) \/ pc = "cancelled"

AllWorkersFinished == \A w \in Workers : Finished(threads[w])
AnyImageError      == \E w \in Workers : threads[w] = "image_error"

\* The state when main has created the channels and spawned the two tasks,
\* for a work list, a limit and a number of cores taken from the given sets.
InitWith(lists, limits, cpus) ==
    /\ list \in lists
    /\ limit \in limits
    /\ cpu \in cpus
    /\ input = <<>>
    /\ output = <<>>
    /\ input_closed = FALSE
    /\ output_closed = FALSE
    /\ input_sx = 1
    /\ input_rx = 1
    /\ output_sx = 1
    /\ output_rx = 1
    /\ open_files = "open"
    /\ next_item = 1
    /\ threads = [w \in 1..cpu |-> "unspawned"]
    /\ held = [w \in 1..cpu |-> 0]
    /\ write_files = "recv"
    /\ out_item = 0
    /\ main = "spawn"
    /\ t = 1
    /\ scope_result = "none"
    /\ result = "none"
    /\ recvCount = [i \in 1..Len(list) |-> 0]
    /\ resizeCount = [i \in 1..Len(list) |-> 0]
    /\ writeCount = [i \in 1..Len(list) |-> 0]
    /\ sentAfterFail = {}
    /\ srcDirs = {}
    /\ srcFiles = {}
    /\ dst0 = {}
    /\ dstDirs = {}
    /\ stack = <<>>
    /\ pairs = <<>>
    /\ phase = "pipelined"
    /\ tasks = <<>>
    /\ taskWrites = <<>>

Init == InitWith(WorkLists, 1..MaxLimit, 1..MaxCpu)

\* A long work list through the smallest pipeline (one worker, channels of
\* capacity one): every stage can be holding a payload at the same time.
InitBurst == InitWith(BoolSeqs(BurstItems), {1}, {1})

Running == main # "returned"

----------------------------------------------------------------------------
\* The reader task open_files.

\* A reader that ends without giving up its sender.
ReaderEndsKeepsSender(pc) ==
    /\ open_files' = pc
    /\ UNCHANGED <<input_sx, input_closed>>

\* The task ends: its input_sx is dropped with it.
ReaderEnds(pc) ==
    /\ open_files' = pc
    /\ input_sx' = Dropped(input_sx)
    /\ input_closed' = ClosedAfterDrop(input_closed, input_sx)

\* File::open and read_to_end of the next source file succeed.
ReaderRead ==
    /\ Running
    /\ open_files = "open"
    /\ next_item <= Len(list)
    /\ open_files' = "send"
    /\ UNCHANGED <<walk, conf, chans, next_item, threads, held, write_files,
                   out_item, main, t, scope_result, result, hist>>

\* File::open or read_to_end fails: the ? returns the io error.
ReaderReadFails ==
    /\ Running
    /\ open_files = "open"
    /\ next_item <= Len(list)
    /\ ReaderEnds("io_error")
    /\ UNCHANGED <<walk, conf, input, output, output_closed, input_rx, output_sx,
                   output_rx, next_item, threads, held, write_files,
                   out_item, main, t, scope_result, result, hist>>

\* input_sx.send((content, dst)).await; a closed channel answers SendError.
ReaderSend ==
    /\ Running
    /\ open_files = "send"
    /\ IF input_closed
       THEN /\ ReaderEnds("send_error")
            /\ UNCHANGED <<input, next_item, sentAfterFail>>
       ELSE /\ ~Full(input, limit)
            /\ input' = Append(input, next_item)
            /\ next_item' = next_item + 1
            /\ open_files' = "open"
            /\ sentAfterFail' = IF AnyImageError
                                THEN sentAfterFail \cup {next_item}
                                ELSE sentAfterFail
            /\ UNCHANGED <<input_sx, input_closed>>
    /\ UNCHANGED <<walk, conf, output, output_closed, input_rx, output_sx,
                   output_rx, threads, held, write_files, out_item, main, t,
                   scope_result, result, recvCount, resizeCount, writeCount>>

\* The list is exhausted: drop(input_sx) and Ok(()).
ReaderDone ==
    /\ Running
    /\ open_files = "open"
    /\ next_item > Len(list)
    /\ ReaderEnds("ok")
    /\ UNCHANGED <<walk, conf, input, output, output_closed, input_rx, output_sx,
                   output_rx, next_item, threads, held, write_files,
                   out_item, main, t, scope_result, result, hist>>

----------------------------------------------------------------------------
\* The worker threads of the scope.

\* The thread's closure returns: its clones irx and osx are dropped.
WorkerEnds(w, pc) ==
    /\ threads' = [threads EXCEPT ![w] = pc]
    /\ input_rx' = Dropped(input_rx)
    /\ input_closed' = ClosedAfterDrop(input_closed, input_rx)
    /\ output_sx' = Dropped(output_sx)
    /\ output_closed' = ClosedAfterDrop(output_closed, output_sx)

\* irx.recv_blocking() returns an item.
WorkerRecv(w) ==
    /\ Running
    /\ threads[w] = "recv"
    /\ input # <<>>
    /\ held' = [held EXCEPT ![w] = Head(input)]
    /\ input' = Rest(input)
    /\ recvCount' = [recvCount EXCEPT ![Head(input)] = @ + 1]
    /\ threads' = [threads EXCEPT ![w] = "resize"]
    /\ UNCHANGED <<walk, conf, output, input_closed, output_closed, input_sx,
                   input_rx, output_sx, output_rx, open_files, next_item,
                   write_files, out_item, main, t, scope_result, result,
                   resizeCount, writeCount, sentAfterFail>>

\* irx.recv_blocking() returns Err: the while let ends, the thread returns Ok.
WorkerDone(w) ==
    /\ Running
    /\ threads[w] = "recv"
    /\ RecvError(input, input_closed)
    /\ WorkerEnds(w, "ok")
    /\ UNCHANGED <<walk, conf, input, output, input_sx, output_rx, open_files,
                   next_item, held, write_files, out_item, main, t,
                   scope_result, result, hist>>

\* resize_image succeeds on decodable bytes.
WorkerResize(w) ==
    /\ Running
    /\ threads[w] = "resize"
    /\ list[held[w]]
    /\ threads' = [threads EXCEPT ![w] = "send"]
    /\ resizeCount' = [resizeCount EXCEPT ![held[w]] = @ + 1]
    /\ UNCHANGED <<walk, conf, chans, open_files, next_item, held, write_files,
                   out_item, main, t, scope_result, result, recvCount,
                   writeCount, sentAfterFail>>

\* resize_image fails: the ? returns the image error, the payload is dropped.
WorkerResizeFails(w) ==
    /\ Running
    /\ threads[w] = "resize"
    /\ ~list[held[w]]
    /\ WorkerEnds(w, "image_error")
    /\ held' = [held EXCEPT ![w] = 0]
    /\ UNCHANGED <<walk, conf, input, output, input_sx, output_rx, open_files,
                   next_item, write_files, out_item, main, t, scope_result,
                   result, hist>>

\* osx.send_blocking((output, path)); a closed channel answers SendError.
WorkerSend(w) ==
    /\ Running
    /\ threads[w] = "send"
    /\ IF output_closed
       THEN /\ WorkerEnds(w, "send_error")
            /\ UNCHANGED output
       ELSE /\ ~Full(output, limit)
            /\ output' = Append(output, held[w])
            /\ threads' = [threads EXCEPT ![w] = "recv"]
            /\ UNCHANGED <<input_rx, input_closed, output_sx, output_closed>>
    /\ held' = [held EXCEPT ![w] = 0]
    /\ UNCHANGED <<walk, conf, input, input_sx, output_rx, open_files, next_item,
                   write_files, out_item, main, t, scope_result, result,
                   hist>>

----------------------------------------------------------------------------
\* The writer task write_files.

\* The task ends: its output_rx is dropped with it.
WriterEnds(pc) ==
    /\ write_files' = pc
    /\ output_rx' = Dropped(output_rx)
    /\ output_closed' = ClosedAfterDrop(output_closed, output_rx)

\* output_rx.recv().await returns an item.
WriterRecv ==
    /\ Running
    /\ write_files = "recv"
    /\ output # <<>>
    /\ out_item' = Head(output)
    /\ output' = Rest(output)
    /\ write_files' = "write"
    /\ UNCHANGED <<walk, conf, input, input_closed, output_closed, input_sx,
                   input_rx, output_sx, output_rx, open_files, next_item,
                   threads, held, main, t, scope_result, result, hist>>

\* output_rx.recv().await returns Err: drop(output_rx) and Ok(()).
WriterDone ==
    /\ Running
    /\ write_files = "recv"
    /\ RecvError(output, output_closed)
    /\ WriterEnds("ok")
    /\ UNCHANGED <<walk, conf, input, output, input_closed, input_sx, input_rx,
                   output_sx, open_files, next_item, threads, held, out_item,
                   main, t, scope_result, result, hist>>

\* smol::fs::write(out_path, out_data) succeeds.
WriterWrite ==
    /\ Running
    /\ write_files = "write"
    /\ writeCount' = [writeCount EXCEPT ![out_item] = @ + 1]
    /\ out_item' = 0
    /\ write_files' = "recv"
    /\ UNCHANGED <<walk, conf, chans, open_files, next_item, threads, held, main,
                   t, scope_result, result, recvCount, resizeCount,
                   sentAfterFail>>

\* smol::fs::write fails: the ? returns the io error.
WriterWriteFails ==
    /\ Running
    /\ write_files = "write"
    /\ WriterEnds("io_error")
    /\ out_item' = 0
    /\ UNCHANGED <<walk, conf, input, output, input_closed, input_sx, input_rx,
                   output_sx, open_files, next_item, threads, held, main, t,
                   scope_result, result, hist>>

----------------------------------------------------------------------------
\* The main thread.

\* A join that discards the thread's result.
JoinErrorIgnored(pc) == FALSE

\* What t.join()?? makes of a finished thread: its error, if it returned one.
JoinError(pc) == Failed(pc)

\* s.spawn of one worker with its clones irx and osx.
MainSpawn ==
    /\ main = "spawn"
    /\ threads' = [threads EXCEPT ![t] = "recv"]
    /\ input_rx' = input_rx + 1
    /\ output_sx' = output_sx + 1
    /\ IF t = cpu
       THEN main' = "join" /\ t' = 1
       ELSE main' = "spawn" /\ t' = t + 1
    /\ UNCHANGED <<walk, conf, input, output, input_closed, output_closed,
                   input_sx, output_rx, open_files, next_item, held,
                   write_files, out_item, scope_result, result, hist>>

\* The closure of the scope returns r: input_rx and output_sx, which it owns,
\* are dropped; the scope then waits for the threads still running.
ClosureReturns(r) ==
    /\ scope_result' = r
    /\ main' = "scope_wait"
    /\ input_rx' = Dropped(input_rx)
    /\ input_closed' = ClosedAfterDrop(input_closed, input_rx)
    /\ output_sx' = Dropped(output_sx)
    /\ output_closed' = ClosedAfterDrop(output_closed, output_sx)
    /\ UNCHANGED t

\* t.join() of the next thread, in spawn order; blocks until it has finished.
MainJoin ==
    /\ main = "join"
    /\ Finished(threads[t])
    /\ IF JoinError(threads[t])
       THEN ClosureReturns("err")
       ELSE IF t = cpu
            THEN ClosureReturns("ok")
            ELSE /\ t' = t + 1
                 /\ UNCHANGED <<main, scope_result, input_rx, input_closed,
                                output_sx, output_closed>>
    /\ UNCHANGED <<walk, conf, input, output, input_sx, output_rx, open_files,
                   next_item, threads, held, write_files, out_item, result,
                   hist>>

\* main returns r: the process exits; a task not yet finished is dropped.
MainReturns(r) ==
    /\ main' = "returned"
    /\ result' = r
    /\ open_files' = IF Finished(open_files) THEN open_files ELSE "cancelled"
    /\ write_files' = IF Finished(write_files) THEN write_files
                      ELSE "cancelled"

\* A scope that returns as soon as its closure has returned.
MainScopeEndsEarly ==
    /\ main = "scope_wait"
    /\ IF scope_result = "err"
       THEN MainReturns("err")
       ELSE /\ main' = "await_open"
            /\ UNCHANGED <<result, open_files, write_files>>
    /\ UNCHANGED <<walk, conf, chans, next_item, threads, held, out_item, t,
                   scope_result, hist>>

\* thread::scope returns once every spawned thread has finished; the ? after
\* it returns the closure's error.
MainScopeEnds ==
    /\ main = "scope_wait"
    /\ AllWorkersFinished
    /\ IF scope_result = "err"
       THEN MainReturns("err")
       ELSE /\ main' = "await_open"
            /\ UNCHANGED <<result, open_files, write_files>>
    /\ UNCHANGED <<walk, conf, chans, next_item, threads, held, out_item, t,
                   scope_result, hist>>

\* open_files.await?
MainAwaitOpen ==
    /\ main = "await_open"
    /\ Finished(open_files)
    /\ IF Failed(open_files)
       THEN MainReturns("err")
       ELSE /\ main' = "await_write"
            /\ UNCHANGED <<result, open_files, write_files>>
    /\ UNCHANGED <<walk, conf, chans, next_item, threads, held, out_item, t,
                   scope_result, hist>>

\* write_files.await? and Ok(())
MainAwaitWrite ==
    /\ main = "await_write"
    /\ Finished(write_files)
    /\ MainReturns(IF Failed(write_files) THEN "err" ELSE "ok")
    /\ UNCHANGED <<walk, conf, chans, next_item, threads, held, out_item, t,
                   scope_result, hist>>

----------------------------------------------------------------------------
Reader == ReaderRead \/ ReaderReadFails \/ ReaderSend \/ ReaderDone

Worker(w) ==
    \/ WorkerRecv(w)
    \/ WorkerDone(w)
    \/ WorkerResize(w)
    \/ WorkerResizeFails(w)
    \/ WorkerSend(w)

Writer == WriterRecv \/ WriterDone \/ WriterWrite \/ WriterWriteFails

Main == MainSpawn \/ MainJoin \/ MainScopeEnds \/ MainAwaitOpen \/ MainAwaitWrite

Next ==
    \/ Reader
    \/ \E w \in Workers : Worker(w)
    \/ Writer
    \/ Main

Spec == Init /\ [][Next]_vars

\* The executor polls a ready task and the OS runs a runnable thread: as long
\* as some stage can take a step, a step is eventually taken.
FairSpec == Spec /\ WF_vars(Next)

SpecBurst == InitBurst /\ [][Next]_vars

TypeOK ==
    /\ input_sx \in 0..1 /\ output_rx \in 0..1
    /\ input_rx \in 0..(cpu + 1) /\ output_sx \in 0..(cpu + 1)
    /\ \A w \in Workers : held[w] \in 0..Len(list)

----------------------------------------------------------------------------
\* prepare: the walk of the source tree.

\* The default of --extension.
Extension == "tif"

\* The directories a source tree may have (relative paths) and the names a
\* file may have; the extension "" stands for a name without extension.
\* The bytes of the files of stem "b" do not decode as an image.
DirPaths  == {<<>>, <<"d">>, <<"d", "s">>}
FileNames == {[stem |-> "a", ext |-> "tif"], [stem |-> "a", ext |-> "TIF"],
              [stem |-> "b", ext |-> "tif"], [stem |-> "c", ext |-> "png"],
              [stem |-> "c", ext |-> ""]}
AllFiles  == {[dir |-> p, stem |-> n.stem, ext |-> n.ext] :
                  p \in DirPaths, n \in FileNames}

Parent(p) == SubSeq(p, 1, Len(p) - 1)

\* The path and all its ancestors.
Ancestors(p) == {SubSeq(p, 1, k) : k \in 0..Len(p)}

\* Sets of directories that contain the root and the parent of each member.
Trees == {ds \in SUBSET DirPaths :
              <<>> \in ds /\ \A p \in ds : p = <<>> \/ Parent(p) \in ds}

\* u8::to_ascii_lowercase on the extensions of FileNames.
Lower(e) == IF e = "TIF" THEN "tif" ELSE e

\* A comparison that does not ignore the case.
EqExactly(a, b) == a = b

\* OsStr::eq_ignore_ascii_case
EqIgnoreAsciiCase(a, b) == Lower(a) = Lower(b)

\* if let Some(ext) = path.extension() { if ext.eq_ignore_ascii_case(..) ..
Matches(f) == f.ext # "" /\ EqIgnoreAsciiCase(f.ext, Extension)

\* A join that forgets the name of the subdirectory.
JoinFlat(dst, name) == dst

\* PathBuf::join of a directory and a name.
Join(dst, name) == Append(dst, name)

\* PathBuf::from(&dst).join(format!("{fstem}.jpg"))
DstName(dst, f) == [dir |-> dst, stem |-> f.stem, ext |-> "jpg"]

\* image::load_from_memory succeeds on the bytes of the file.
Decodable(f) == f.stem # "b"

\* What read_dir(src) yields: the files and the subdirectories of src.
Entries(src) ==
    {[kind |-> "file", file |-> f] : f \in {g \in srcFiles : g.dir = src}}
    \cup {[kind |-> "dir", path |-> p] :
              p \in {q \in srcDirs : q # <<>> /\ Parent(q) = src}}

Top == stack[Len(stack)]
SetTop(fr) == [stack EXCEPT ![Len(stack)] = fr]

\* main has parsed its arguments and calls prepare(src, dst, ..) on a source
\* tree of at most MaxFiles files; dst may exist already, in part.
InitSync ==
    /\ list = <<>>
    /\ limit = 1
    /\ cpu = 1
    /\ input = <<>>
    /\ output = <<>>
    /\ input_closed = FALSE
    /\ output_closed = FALSE
    /\ input_sx = 0
    /\ input_rx = 0
    /\ output_sx = 0
    /\ output_rx = 0
    /\ open_files = "unspawned"
    /\ next_item = 1
    /\ threads = <<"unspawned">>
    /\ held = <<0>>
    /\ write_files = "unspawned"
    /\ out_item = 0
    /\ main = "sync"
    /\ t = 1
    /\ scope_result = "none"
    /\ result = "none"
    /\ recvCount = <<>>
    /\ resizeCount = <<>>
    /\ writeCount = <<>>
    /\ sentAfterFail = {}
    /\ srcDirs \in Trees
    /\ srcFiles \in {fs \in SUBSET AllFiles :
                        /\ Cardinality(fs) <= MaxFiles
                        /\ \A f \in fs : f.dir \in srcDirs}
    /\ dst0 \in {ds \in Trees \cup {{}} : <<"d", "s">> \notin ds}
    /\ dstDirs = dst0
    /\ stack = << [src |-> <<>>, dst |-> <<>>, at |-> "enter", todo |-> {}] >>
    /\ pairs = <<>>
    /\ phase = "prepare"
    /\ tasks = <<>>
    /\ taskWrites = <<>>

\* A prepare that does not create the destination directory.
PrepareEnterNoCreate ==
    /\ phase = "prepare"
    /\ Top.at = "enter"
    /\ stack' = SetTop([Top EXCEPT !.at = "iter", !.todo = Entries(Top.src)])
    /\ UNCHANGED <<pipe, srcDirs, srcFiles, dst0, dstDirs, pairs, phase,
                   tasks, taskWrites>>

\* The head of prepare: create_dir_all(dst) unless dst exists, then read_dir.
PrepareEnter ==
    /\ phase = "prepare"
    /\ Top.at = "enter"
    /\ dstDirs' = IF Top.dst \in dstDirs THEN dstDirs
                  ELSE dstDirs \cup Ancestors(Top.dst)
    /\ stack' = SetTop([Top EXCEPT !.at = "iter", !.todo = Entries(Top.src)])
    /\ UNCHANGED <<pipe, srcDirs, srcFiles, dst0, pairs, phase, tasks,
                   taskWrites>>

\* try_exists, create_dir_all, read_dir or an entry of the iteration fails:
\* the ? returns the io error through every active call, and main returns it.
PrepareFails ==
    /\ phase = "prepare"
    /\ Top.at = "iter" => Top.todo # {}
    /\ \E created \in BOOLEAN :
          dstDirs' = IF created /\ Top.at = "enter"
                     THEN dstDirs \cup Ancestors(Top.dst)
                     ELSE dstDirs
    /\ stack' = <<>>
    /\ phase' = "prepare_err"
    /\ UNCHANGED <<pipe, srcDirs, srcFiles, dst0, pairs, tasks, taskWrites>>

\* The entry is a directory: prepare(path, dst.join(file_name), ..).
PrepareDescend ==
    /\ phase = "prepare"
    /\ Top.at = "iter"
    /\ \E e \in Top.todo :
          /\ e.kind = "dir"
          /\ stack' = Append(SetTop([Top EXCEPT !.todo = @ \ {e}]),
                             [src |-> e.path,
                              dst |-> Join(Top.dst, e.path[Len(e.path)]),
                              at |-> "enter", todo |-> {}])
    /\ UNCHANGED <<pipe, srcDirs, srcFiles, dst0, dstDirs, pairs, phase,
                   tasks, taskWrites>>

\* The entry is a file: it is pushed with its destination when its extension
\* matches, and skipped otherwise.
PrepareFile ==
    /\ phase = "prepare"
    /\ Top.at = "iter"
    /\ \E e \in Top.todo :
          /\ e.kind = "file"
          /\ stack' = SetTop([Top EXCEPT !.todo = @ \ {e}])
          /\ pairs' = IF Matches(e.file)
                      THEN Append(pairs, [src |-> e.file,
                                          dst |-> DstName(Top.dst, e.file)])
                      ELSE pairs
    /\ UNCHANGED <<pipe, srcDirs, srcFiles, dst0, dstDirs, phase, tasks,
                   taskWrites>>

\* The entries are exhausted: Ok(()); the outermost call returns to main,
\* which hands the list to the par_iter.
PrepareReturn ==
    /\ phase = "prepare"
    /\ Top.at = "iter"
    /\ Top.todo = {}
    /\ stack' = SubSeq(stack, 1, Len(stack) - 1)
    /\ IF Len(stack) = 1
       THEN /\ phase' = "par_iter"
            /\ tasks' = [i \in 1..Len(pairs) |-> "pending"]
            /\ taskWrites' = [i \in 1..Len(pairs) |-> 0]
       ELSE UNCHANGED <<phase, tasks, taskWrites>>
    /\ UNCHANGED <<pipe, srcDirs, srcFiles, dst0, dstDirs, pairs>>

Prepare ==
    \/ PrepareEnter
    \/ PrepareFails
    \/ PrepareDescend
    \/ PrepareFile
    \/ PrepareReturn

----------------------------------------------------------------------------
\* The data-parallel strategy: list.into_par_iter().for_each(..).

InFlight(pc) == pc \in {"read", "resize", "write"}
Ended(pc)    == pc \in {"done", "panicked", "skipped"}

AnyPanicked == \E i \in 1..Len(tasks) : tasks[i] = "panicked"

\* An error that is dropped instead of unwrapped.
TaskFailsSilently(i) == tasks' = [tasks EXCEPT ![i] = "done"]

\* sync_version(..).unwrap() on an Err: the task panics.
TaskFails(i) == tasks' = [tasks EXCEPT ![i] = "panicked"]

\* A pool thread takes the item and calls sync_version: fs::read(src).
TaskStart(i) ==
    /\ phase = "par_iter"
    /\ tasks[i] = "pending"
    /\ tasks' = [tasks EXCEPT ![i] = "read"]
    /\ UNCHANGED <<pipe, srcDirs, srcFiles, dst0, dstDirs, stack, pairs,
                   phase, taskWrites>>

\* fs::read(src) succeeds.
TaskRead(i) ==
    /\ phase = "par_iter"
    /\ tasks[i] = "read"
    /\ tasks' = [tasks EXCEPT ![i] = "resize"]
    /\ UNCHANGED <<pipe, srcDirs, srcFiles, dst0, dstDirs, stack, pairs,
                   phase, taskWrites>>

\* fs::read(src) fails.
TaskReadFails(i) ==
    /\ phase = "par_iter"
    /\ tasks[i] = "read"
    /\ TaskFails(i)
    /\ UNCHANGED <<pipe, srcDirs, srcFiles, dst0, dstDirs, stack, pairs,
                   phase, taskWrites>>

\* resize_image succeeds on decodable bytes, and fails on the others.
TaskResize(i) ==
    /\ phase = "par_iter"
    /\ tasks[i] = "resize"
    /\ IF Decodable(pairs[i].src)
       THEN tasks' = [tasks EXCEPT ![i] = "write"]
       ELSE TaskFails(i)
    /\ UNCHANGED <<pipe, srcDirs, srcFiles, dst0, dstDirs, stack, pairs,
                   phase, taskWrites>>

\* fs::write(dst, ..) succeeds; its directory must exist.
TaskWrite(i) ==
    /\ phase = "par_iter"
    /\ tasks[i] = "write"
    /\ pairs[i].dst.dir \in dstDirs
    /\ tasks' = [tasks EXCEPT ![i] = "done"]
    /\ taskWrites' = [taskWrites EXCEPT ![i] = @ + 1]
    /\ UNCHANGED <<pipe, srcDirs, srcFiles, dst0, dstDirs, stack, pairs,
                   phase>>

\* fs::write(dst, ..) fails.
TaskWriteFails(i) ==
    /\ phase = "par_iter"
    /\ tasks[i] = "write"
    /\ TaskFails(i)
    /\ UNCHANGED <<pipe, srcDirs, srcFiles, dst0, dstDirs, stack, pairs,
                   phase, taskWrites>>

\* After a panic, an item that no thread has started may never be started:
\* the items that follow the panicking one in its sequential chunk are not.
TaskSkipped(i) ==
    /\ phase = "par_iter"
    /\ tasks[i] = "pending"
    /\ AnyPanicked
    /\ tasks' = [tasks EXCEPT ![i] = "skipped"]
    /\ UNCHANGED <<pipe, srcDirs, srcFiles, dst0, dstDirs, stack, pairs,
                   phase, taskWrites>>

\* for_each returns when every item has ended; a panic of a task is resumed
\* on the main thread, otherwise main returns Ok(()).
ForEachReturns ==
    /\ phase = "par_iter"
    /\ \A i \in 1..Len(tasks) : Ended(tasks[i])
    /\ phase' = IF AnyPanicked THEN "panicked" ELSE "returned_ok"
    /\ UNCHANGED <<pipe, srcDirs, srcFiles, dst0, dstDirs, stack, pairs,
                   tasks, taskWrites>>

Task(i) ==
    \/ TaskStart(i)
    \/ TaskRead(i)
    \/ TaskReadFails(i)
    \/ TaskResize(i)
    \/ TaskWrite(i)
    \/ TaskWriteFails(i)
    \/ TaskSkipped(i)

NextSync ==
    \/ Prepare
    \/ \E i \in 1..Len(tasks) : Task(i)
    \/ ForEachReturns

SpecSync == InitSync /\ [][NextSync]_vars

----------------------------------------------------------------------------
\* Properties.

AllStopped ==
    /\ main = "returned"
    /\ Stopped(open_files)
    /\ Stopped(write_files)
    /\ AllWorkersFinished

\* C1: under fair scheduling the reader, every worker, the writer and the
\* main thread all eventually terminate, whichever stage fails or none.
C1_AllTerminate == <>AllStopped

\* C1 witness: the writer failed, a worker was released from its send by the
\* close of the output channel, and every stage has stopped.
C1_Witness ==
    /\ AllStopped
    /\ write_files = "io_error"
    /\ \E w \in Workers : threads[w] = "send_error"

\* C2: the input channel holds at most limit raw items and the output channel
\* at most limit encoded items, in every reachable state.
C2_QueuesBounded == Len(input) <= limit /\ Len(output) <= limit

\* C2 witness: both channels are full and the reader waits to send.
C2_Witness ==
    /\ Len(input) = limit
    /\ Len(output) = limit
    /\ open_files = "send"

\* Payloads in memory: read from their source and not yet written, held by
\* the reader, a channel, a worker or the writer.
Buffered ==
    (IF open_files = "send" THEN 1 ELSE 0)
    + Len(input)
    + Cardinality({w \in Workers : held[w] # 0})
    + Len(output)
    + (IF out_item # 0 THEN 1 ELSE 0)

\* C3 as stated: the items buffered but not yet written never exceed 2 x L.
C3_AtMostTwiceLimit == Buffered <= 2 * limit

\* C3 amended: the items buffered but not yet written never exceed
\* 2 x L + W + 2: L in each channel, one per worker, one with the reader
\* while it waits to send and one with the writer while it writes.
C3_BufferedBounded == Buffered <= 2 * limit + cpu + 2

\* C3 witness: the amended bound is met, every stage holds a payload.
C3_Witness ==
    /\ Buffered = 2 * limit + cpu + 2
    /\ open_files = "send"
    /\ write_files = "write"

\* C4: the output channel is closed only after every worker has finished,
\* never while some worker is still running.
C4_ClosedAfterWorkers == output_closed => AllWorkersFinished

AnyStageFailed ==
    \/ Failed(open_files)
    \/ Failed(write_files)
    \/ \E w \in Workers : Failed(threads[w])

\* C5: if the reader, a worker or the writer has failed, main does not
\* return success.
C5_FailFast == (main = "returned" /\ AnyStageFailed) => result = "err"

\* C5 witness: only the writer failed, on the last item, after the reader
\* and every worker had finished without error; main returned the error.
C5_Witness ==
    /\ main = "returned"
    /\ result = "err"
    /\ write_files = "io_error"
    /\ open_files = "ok"
    /\ \A w \in Workers : threads[w] = "ok"

\* C6: when main returns success every work item has been written, and no
\* item is left in a channel or held by a stage.
C6_SuccessMeansWritten ==
    (main = "returned" /\ result = "ok") =>
        /\ \A i \in Items : writeCount[i] >= 1
        /\ input = <<>> /\ output = <<>>
        /\ \A w \in Workers : held[w] = 0
        /\ out_item = 0
        /\ open_files = "ok" /\ write_files = "ok"

\* C6 witness: main returned success for a list of at least two items.
C6_Witness ==
    /\ main = "returned"
    /\ result = "ok"
    /\ Len(list) >= 2

\* C7: each work item is received from the input channel at most once,
\* resized at most once and written at most once, and no two workers hold
\* the same item.
C7_ExactlyOnce ==
    /\ \A i \in Items :
        recvCount[i] <= 1 /\ resizeCount[i] <= 1 /\ writeCount[i] <= 1
    /\ \A v, w \in Workers : (v # w /\ held[v] # 0) => held[v] # held[w]

\* C7 witness: two workers hold items at the same time while an earlier item
\* has been written.
C7_Witness ==
    /\ cpu >= 2
    /\ held[1] # 0 /\ held[2] # 0
    /\ \E i \in Items : writeCount[i] = 1

\* C8: once a worker has failed with an image error no worker receives a
\* further item, and no item sent to the input channel after that failure is
\* resized or written.
C8_PoolStopsOnError ==
    /\ [][AnyImageError => recvCount' = recvCount]_vars
    /\ [](\A i \in sentAfterFail : resizeCount[i] = 0 /\ writeCount[i] = 0)

\* C9: for a batch of one valid and one corrupted item, without I/O failure,
\* when the run has terminated the valid item has been written, the
\* corrupted one has not, and the result is an error.
C9_OneValidOneCorrupt ==
    ( /\ main = "returned"
      /\ Len(list) = 2
      /\ list[1] # list[2]
      /\ open_files # "io_error"
      /\ write_files # "io_error" ) =>
        /\ \A i \in Items : list[i] => writeCount[i] >= 1
        /\ \A i \in Items : ~list[i] => writeCount[i] = 0
        /\ result = "err"

\* C10: no send ever meets a closed channel: neither the reader on the input
\* channel nor a worker on the output channel gets a SendError.
C10_NoSendError ==
    /\ open_files # "send_error"
    /\ \A w \in Workers : threads[w] # "send_error"

\* Number of times item i occurs in the channel content q.
Occurrences(q, i) == Cardinality({k \in 1..Len(q) : q[k] = i})

\* Number of places that hold the payload of item i: the reader while it
\* waits to send, the input channel, the workers, the output channel, the
\* writer.
Holders(i) ==
    (IF open_files = "send" /\ next_item = i THEN 1 ELSE 0)
    + Occurrences(input, i)
    + Cardinality({w \in Workers : held[w] = i})
    + Occurrences(output, i)
    + (IF out_item = i THEN 1 ELSE 0)

\* C11: every payload is held by at most one of reader, input channel, one
\* worker, output channel and writer; so no item is in both channels and no
\* item appears twice in a channel.
C11_SingleOwner == \A i \in Items : Holders(i) <= 1

\* C11 witness: both channels and a worker hold a payload at the same time.
C11_Witness ==
    /\ input # <<>>
    /\ output # <<>>
    /\ \E w \in Workers : held[w] # 0

\* C16: the reader has closed the input channel whenever it has stopped, on
\* success and on a read or send error alike; it gives up its sender only
\* when the whole list is sent or it has failed; and it sends the items in
\* work-list order: what was sent is the prefix of the list before next_item,
\* and the channel holds it in increasing order.
C16_ReaderCloses ==
    /\ Finished(open_files) => (input_sx = 0 /\ input_closed)
    /\ input_sx = 0 =>
          \/ open_files = "ok" /\ next_item = Len(list) + 1
          \/ Failed(open_files)
    /\ \A k \in 1..Len(input) : input[k] < next_item
    /\ \A k \in 1..Len(input) : \A m \in 1..Len(input) :
          k < m => input[k] < input[m]
    /\ \A i \in Items : i >= next_item => recvCount[i] = 0

\* C16 witness: the reader stopped on a read error after having sent an item,
\* and the input channel is closed with that item still in it.
C16_Witness ==
    /\ open_files = "io_error"
    /\ input_closed
    /\ input # <<>>

\* C17: a worker that has left its receive loop without error did so on a
\* closed and empty input channel, which stays closed and empty.
C17_WorkerExitsOnDrained ==
    \A w \in Workers : threads[w] = "ok" => (input_closed /\ input = <<>>)

\* C17 witness: one worker has left its loop without error while another one
\* still holds the last item.
C17_Witness ==
    /\ cpu >= 2
    /\ threads[1] = "ok"
    /\ held[2] # 0

\* C18: the payloads in memory never exceed 2 x L + W + 2, and the reader
\* holds a payload only when every earlier item has been accepted by the
\* input channel: it does not read ahead of its pending send.
C18_PayloadsBounded ==
    /\ Buffered <= 2 * limit + cpu + 2
    /\ open_files = "send" =>
          \A i \in Items : i < next_item =>
              (Occurrences(input, i) = 1 \/ recvCount[i] >= 1)
    /\ Cardinality({i \in Items : i >= next_item /\ Holders(i) > 0})
          <= (IF open_files = "send" THEN 1 ELSE 0)

\* C18 witness: the bound is met while the worker waits to send on the full
\* output channel.
C18_Witness ==
    /\ Buffered = 2 * limit + cpu + 2
    /\ \E w \in Workers : threads[w] = "send"
    /\ Len(output) = limit

\* C20: when main has returned its result, success or error, every worker
\* thread has terminated and none holds an item.
C20_ReturnAfterWorkers ==
    main = "returned" =>
        \A w \in Workers :
            /\ threads[w] \in {"ok", "image_error", "send_error"}
            /\ held[w] = 0

\* C20 witness: the closure of the scope has returned the error of the first
\* joined worker while another worker is in the middle of an item.
C20_Witness ==
    /\ main = "scope_wait"
    /\ scope_result = "err"
    /\ threads[1] = "image_error"
    /\ \E w \in Workers : held[w] # 0

----------------------------------------------------------------------------
\* Properties of prepare and of the data-parallel strategy.

\* prepare has returned Ok(()).
Prepared == phase \in {"par_iter", "panicked", "returned_ok"}

TaskIds == 1..Len(tasks)

\* C12: the run reports success only if no task failed, and then every item
\* has been read, resized and written exactly once; a task in flight is never
\* cancelled by the failure of another one, and the run does not report its
\* result while a task is in flight.
C12_DataParallel ==
    /\ [](phase = "returned_ok" =>
            \A i \in TaskIds : tasks[i] = "done" /\ taskWrites[i] = 1)
    /\ [](phase \in {"panicked", "returned_ok"} =>
            \A i \in TaskIds : Ended(tasks[i]))
    /\ [][\A i \in TaskIds :
            InFlight(tasks[i]) =>
                (InFlight(tasks'[i]) \/ tasks'[i] \in {"done", "panicked"})]_vars

\* C12 witness: one task has panicked and another one is still in flight.
C12_Witness ==
    \E i, j \in TaskIds : tasks[i] = "panicked" /\ InFlight(tasks[j])

\* The files of the given extension, whatever the case of its letters.
TifFiles == {f \in srcFiles : f.ext \in {"tif", "TIF", "Tif", "tiF"}}

\* The source directory p holds a matching file, itself or in a subdirectory.
HoldsMatch(p) ==
    \E f \in TifFiles : Len(f.dir) >= Len(p) /\ SubSeq(f.dir, 1, Len(p)) = p

C19_DistinctDestPaths ==
    \A i, j \in TaskIds :
        (i # j /\ InFlight(tasks[i]) /\ InFlight(tasks[j])) =>
            pairs[i].dst # pairs[j].dst

====
